---- MODULE Spec2Model ----
(***************************************************************************)
(* Session lifecycle of the on-device model clients of learning-buddy:     *)
(* SummarizerClient, WriterClient and PromptClient (src/lib/modelClients). *)
(* One manager instance is modelled; its kind is fixed at construction.    *)
(* Every await in the code is a suspension point: the synchronous run up   *)
(* to an await is one action, and the continuation after it is another.    *)
(* Promise reactions run in the order in which they were registered.       *)
(***************************************************************************)
EXTENDS Integers, Sequences, FiniteSets, TLC

\* ---------------------------------------------------------------- bounds
MaxCalls == 2        \* acquire() calls (initFromUserGesture) issued in a run
MaxDispose == 1      \* dispose() calls issued in a run
MaxProbes == 2       \* availability() calls issued in a run
MaxClones == 1       \* cloneSession()/resetContext() calls issued in a run
MaxOps == 3          \* calls of all kinds together issued in a run
MaxEvents == 2       \* downloadprogress events delivered in a run
MaxLen == 2          \* characters of a subject text
MaxFrags == 2        \* fragments the backend produces for one generation
MaxPairCalls == 2    \* getPairForCard() calls issued in a run
MaxCards == 2        \* largest card id in use; id 0 is the id a card may lack
MaxPanels == 2       \* panels opened (initPanelForText) in a run
MaxChunks == 2       \* fragments the backend produces for all panel streams together
MaxLivePanels == 1   \* panels opened where every run is followed to its end
MaxRuns == 2         \* question runs of the quiz game (runs of its effect)
MaxQuestions == 2    \* cards of a quiz session
MaxClicks == 2       \* clicks on Summarize in the popup
MaxReviews == 3      \* reviews of the card

\* ------------------------------------------------------------- constants
Null == 0            \* null / undefined reference
Undef == -99         \* an optional numeric field that is absent
NotANumber == -98    \* a value that is not a finite number: NaN, Infinity, a string
One == 2             \* sampling values are counted in halves: 2 stands for 1.0

Kinds == {"Summarizer", "Writer", "LanguageModel"}
Callers == 1..MaxCalls
CloneIds == (MaxCalls + 1)..(MaxCalls + MaxClones)
JobIds == Callers \cup CloneIds      \* a create() job is named by its caller
ProbeIds == 1..MaxProbes
PairCalls == 1..MaxPairCalls
CardIds == 0..MaxCards
Selections == 1..MaxPanels           \* a panel is named by its selection
\* the two text fields initPanelForText streams into
Fields == {"summaryText", "explainText"}
FeedIds == Selections \X Fields      \* a streamPromptIntoField() call

\* the availability states the clients know
KnownStates == {"available", "downloadable", "downloading", "unavailable", "unknown"}
\* what the backend's availability() may do: answer a state of PromptAvailability
\* (which lists "no-api"), answer a value outside the known set, or throw
ProbeAnswers == {"available", "downloadable", "no-api", "bogus", "throw"}

\* baseline options: one plain field (length) and the two sampling fields
defaultOpts == [length |-> "medium", temperature |-> Undef, topK |-> Undef]
\* create parameters: an absent field is Undef (numbers) or "" (length)
NoParams == [length |-> "", temperature |-> Undef, topK |-> Undef]
\* temperature 2.5 and topK 4.5
ParamSet == {NoParams, [length |-> "short", temperature |-> 5, topK |-> 9]}
\* requests that are out of range, fractional, or no numbers at all
TuningSet == ParamSet \cup
             {[length |-> "", temperature |-> NotANumber, topK |-> NotANumber],
              [length |-> "", temperature |-> -1, topK |-> 1],
              [length |-> "", temperature |-> 3, topK |-> 3],
              [length |-> "", temperature |-> Undef, topK |-> -6]}
\* what setOpts() may be given
SetOptsSet == {[length |-> "long", temperature |-> Undef, topK |-> Undef]}
\* what LanguageModel.params() may answer
NoModelParams == [defaultTopK |-> Undef, maxTopK |-> Undef, defaultTemperature |-> Undef, maxTemperature |-> Undef]
\* a device without topK, and one with defaultTopK 2, maxTopK 3,
\* defaultTemperature 1.0 and maxTemperature 2.0
ModelParamSet == {[defaultTopK |-> 4, maxTopK |-> 0, defaultTemperature |-> 2, maxTemperature |-> 4],
                  [defaultTopK |-> 4, maxTopK |-> 6, defaultTemperature |-> 2, maxTemperature |-> 4]}

VARIABLES
  kind,               \* which client this manager is
  apiPresent,         \* self.Writer / self.Summarizer / self.LanguageModel exists
  modelParams,        \* what LanguageModel.params() answers on this device
  session,            \* this.session: id of the held session, or Null
  creating,           \* this.creating: id of the creation promise, or Null
  opts,               \* this.opts
  availabilityStatus, \* this.availabilityStatus: cached probe value, or "" (null)
  pc,                 \* position of every acquire() call
  awaiting,           \* the creation promise an acquire() call awaits
  merged,             \* the merged options captured by a call that creates
  cparams,            \* the params argument of every acquire() call; while its
                      \* create() runs, the sampling parameters create() was given
  job,                \* state of every backend create()/clone() promise
  waiters,            \* reactions registered on each creation promise, in order
  mq,                 \* continuations whose promise has settled, in queue order
  outcome,            \* how every acquire() call ended
  probe,              \* state of every availability() call
  clone,              \* state of every cloneSession() call
  destroyed,          \* sessions on which destroy() has run
  disp,               \* the last dispose() call: count, inputs and result
  hist,               \* history: counters and marks used to state properties
  acq,                \* per acquire() call: its progress callback and its abort signal
  strm,               \* the streaming generation call of the run
  pairCache,          \* PromptClient.pairCache: card id -> stored pair
  pcall,              \* the getPairForCard() calls
  panelData,          \* content script: the panel state the streams write into
  feed,               \* content script: the streamPromptIntoField() calls
  quiz,               \* TestGame: its state, its refs and its question runs
  popup,              \* summarizer popup: its state, its refs and its runs
  card                \* a flashcard of the store and its SM-2 fields

vars == <<kind, apiPresent, modelParams, session, creating, opts, availabilityStatus, pc,
          awaiting, merged, cparams, job, waiters, mq, outcome, probe, clone,
          destroyed, disp, hist, acq, strm, pairCache, pcall, panelData, feed,
          quiz, popup, card>>

\* the variables of the session lifecycle
lifeVars == <<kind, apiPresent, modelParams, session, creating, opts, availabilityStatus, pc,
              awaiting, merged, cparams, job, waiters, mq, outcome, probe, clone,
              destroyed, disp, hist>>

\* the variables of the session lifecycle other than this.session
lifeRest == <<kind, apiPresent, modelParams, creating, opts, availabilityStatus, pc,
              awaiting, merged, cparams, job, waiters, mq, outcome, probe, clone,
              destroyed, disp, hist>>

\* the variables of the statement-pair cache and of the content script's panel
cacheVars == <<pairCache, pcall>>
panelVars == <<panelData, feed>>
uiVars == <<quiz, popup, card>>

\* the variables of the model clients and of the content script
coreVars == <<lifeVars, acq, strm, cacheVars, panelVars>>

\* ---------------------------------------------------------------- helpers
\* { ...a, ...b }: fields of b that are present override those of a
Merge(a, b) ==
  [length      |-> IF b.length = "" THEN a.length ELSE b.length,
   temperature |-> IF b.temperature = Undef THEN a.temperature ELSE b.temperature,
   topK        |-> IF b.topK = Undef THEN a.topK ELSE b.topK]

\* a ?? b
Coalesce(a, b) == IF a = Undef THEN b ELSE a

\* typeof x === "number" && Number.isFinite(x)
Finite(x) == x \notin {Undef, NotANumber}

\* `if (x < lo) x = lo; if (x > hi) x = hi;` a comparison with NaN is false
Clamp(x, lo, hi) ==
  IF ~Finite(x) THEN x
  ELSE LET y == IF x < lo THEN lo ELSE x IN IF y > hi THEN hi ELSE y

\* mutant: topK is not rounded
RoundJS_none(x) == x

\* Math.round(x): the nearest integer, halves upwards; NaN for undefined
RoundJS(x) == IF Finite(x) THEN ((x + 1) \div One) * One ELSE NotANumber

\* PromptClient._getTuningParams: reads this.opts when it resumes after params()
TuningParams(prm, base, mp) ==
  IF ~(mp.maxTopK # Undef /\ mp.maxTopK > 0)
    THEN [temperature |-> Undef, topK |-> Undef]
    ELSE LET t == Coalesce(Coalesce(prm.temperature, base.temperature), mp.defaultTemperature)
             k == Coalesce(Coalesce(prm.topK, base.topK), mp.defaultTopK)
             maxT == IF mp.maxTemperature # Undef THEN mp.maxTemperature ELSE 2 * One
         IN [temperature |-> Clamp(IF Finite(t) THEN t ELSE Coalesce(mp.defaultTemperature, One),
                                   0, maxT),
             topK        |-> Clamp(RoundJS(IF Finite(k) THEN k ELSE mp.defaultTopK),
                                   One, mp.maxTopK)]

InFlight == {j \in JobIds : job[j] = "inflight"}
CreatesInFlight == InFlight \cap Callers
\* calls issued so far: acquire, dispose, availability, clone, setOpts, streaming
\* and getPairForCard
Ops == Cardinality({p \in Callers : pc[p] # "idle"}) + disp.n
       + Cardinality({q \in ProbeIds : probe[q].pc # "idle"})
       + Cardinality({c \in CloneIds : clone[c].pc # "idle"}) + hist.setOptsCalls
       + (IF strm.pc # "idle" THEN 1 ELSE 0)
       + Cardinality({c \in PairCalls : pcall[c].pc # "idle"})

\* an availability() call that has not been issued
NoProbe == [pc |-> "idle", force |-> FALSE, answer |-> "", result |-> ""]

\* an acquire() call given neither onDownloadProgress nor signal
NoCallbacks == [cb |-> FALSE, token |-> "none", seen |-> <<>>]

\* no streaming call has been issued
NoStream == [pc |-> "idle", method |-> "", text |-> <<>>, token |-> "none", backend |-> FALSE,
             sess |-> Null, read |-> 0, delivered |-> 0, diag |-> FALSE]

\* pairCache.get(id) is undefined; a pair is named by the call that built it
NoPair == [has |-> FALSE, by |-> 0]

\* a getPairForCard() call that has not been issued; t and f are the states of
\* its two statement generations on session sess, early and seq are history
NoPairCall == [pc |-> "idle", id |-> 0, token |-> "armed", t |-> "none", f |-> "none",
               sess |-> Null, ret |-> NoPair, early |-> FALSE, seq |-> FALSE]

\* `let panelData: PanelData | null = null`
NoPanel == [sel |-> 0, text |-> [f \in Fields |-> <<>>], loading |-> [f \in Fields |-> FALSE],
            error |-> [f \in Fields |-> FALSE]]

\* a streamPromptIntoField() call that has not been issued; buf holds the
\* fragments the backend has produced and the loop has not taken yet, produced
\* and got are history, kept while the call lasts; made counts the fragments
NoFeed == [pc |-> "idle", buf |-> <<>>, produced |-> <<>>, got |-> <<>>, made |-> 0]

\* the question runs of the quiz game, named by the run id they draw
QuizRuns == 1..MaxRuns

\* TestGame as mounted: live is the run whose effect cleanup is registered;
\* quizStatement carries the run that fetched it
NoQuiz == [gameState |-> "NotStarted", index |-> 0, questionIdRef |-> 0, live |-> 0,
           run |-> [r \in QuizRuns |-> [pc |-> "idle", aborted |-> FALSE]],
           quizStatement |-> [by |-> 0, text |-> ""], isStatementTrue |-> FALSE,
           questionLoading |-> FALSE, selectedAnswer |-> "null", showNextButton |-> FALSE]

\* the runs of the popup's run(), in the order of the clicks
PopupRuns == 1..MaxClicks

\* the popup before its page is open; ctrlRef names the run that made the
\* controller it holds (0: null), signaled the controllers that were aborted
NoPopup == [variant |-> "", reqToken |-> 0, ctrlRef |-> 0, signaled |-> {},
            busy |-> FALSE, out |-> [by |-> 0, text |-> ""], err |-> "null",
            run |-> [r \in PopupRuns |-> [pc |-> "idle", myToken |-> 0, signal |-> 0]]]

\* no card is stored; easeFactor is counted in hundredths
NoCard == [stored |-> FALSE, interval |-> 0, easeFactor |-> 0, reviews |-> 0]

\* ------------------------------------------------------------------- Init
Init ==
  /\ kind \in Kinds
  /\ apiPresent \in BOOLEAN
  /\ modelParams \in IF kind = "LanguageModel" /\ apiPresent
                      THEN ModelParamSet ELSE {NoModelParams}
  /\ session = Null
  /\ creating = Null
  /\ opts = defaultOpts
  /\ availabilityStatus = ""
  /\ pc = [p \in Callers |-> "idle"]
  /\ awaiting = [p \in Callers |-> Null]
  /\ merged = [p \in Callers |-> defaultOpts]
  /\ cparams = [p \in Callers |-> NoParams]
  /\ job = [j \in JobIds |-> "none"]
  /\ waiters = [j \in Callers |-> <<>>]
  /\ mq = <<>>
  /\ outcome = [p \in Callers |-> [st |-> "none", by |-> Null]]
  /\ probe = [q \in ProbeIds |-> NoProbe]
  /\ clone = [c \in CloneIds |-> [pc |-> "idle", src |-> Null, makeActive |-> FALSE]]
  /\ destroyed = {}
  /\ disp = [n |-> 0, hadSession |-> FALSE, destroyThrew |-> FALSE, threw |-> FALSE]
  /\ hist = [creates |-> 0, paramsCalls |-> 0, availCalls |-> 0, cloneCalls |-> 0,
             allFresh |-> TRUE, readyCleared |-> FALSE, stale |-> {}, released |-> {},
             noBackend |-> FALSE, late |-> {}, setOptsCalls |-> 0]
  /\ acq = [p \in Callers |-> NoCallbacks]
  /\ strm = NoStream
  /\ pairCache = [i \in CardIds |-> NoPair]
  /\ pcall = [c \in PairCalls |-> NoPairCall]
  /\ panelData = NoPanel
  /\ feed = [s \in FeedIds |-> NoFeed]
  /\ quiz = NoQuiz
  /\ popup = NoPopup
  /\ card = NoCard

\* ------------------------------------------------- acquire(): the branches
\* variables no branch of initFromUserGesture touches
AcquireFrame == UNCHANGED <<kind, apiPresent, modelParams, session, opts, mq, probe, clone, destroyed, disp>>

FreshPhase == disp.n = 0 /\ session = Null /\ \A j \in JobIds : job[j] \in {"none", "inflight"}

\* history: was every acquire() so far issued on a fresh manager, and which
\* acquire() calls were issued after a probe had returned 'no-api'
Mark(p) == [hist EXCEPT !.allFresh = @ /\ FreshPhase,
                        !.late = IF hist.noBackend THEN @ \cup {p} ELSE @]

\* mutant: the temperature is passed on its own
CreateOptions_temperatureOnly(m) == [NoParams EXCEPT !.temperature = m.temperature]

\* the sampling parameters among the options of create(): `if (temperature !==
\* undefined && topK !== undefined) { createOptions.temperature = temperature;
\* createOptions.topK = topK; }`; the other two clients pass none
CreateOptions(m) ==
  IF kind = "LanguageModel" /\ m.temperature # Undef /\ m.topK # Undef
    THEN [NoParams EXCEPT !.temperature = m.temperature, !.topK = m.topK]
    ELSE NoParams

\* `this.creating = Api.create(createOpts).then(..).finally(..); await this.creating`
StartCreate(p, m, h) ==
  /\ job' = [job EXCEPT ![p] = "inflight"]
  /\ creating' = p
  /\ waiters' = [waiters EXCEPT ![p] = <<p>>]
  /\ pc' = [pc EXCEPT ![p] = "awaitCreate"]
  /\ awaiting' = [awaiting EXCEPT ![p] = p]
  /\ merged' = [merged EXCEPT ![p] = m]
  /\ cparams' = [cparams EXCEPT ![p] = CreateOptions(m)]
  /\ hist' = [h EXCEPT !.creates = @ + 1]
  /\ UNCHANGED outcome

\* mutant: the session check is missing and the call creates again
ReadyReturn_recreate(p) == StartCreate(p, opts, Mark(p))

\* `if (this.session) return;`
ReadyReturn(p) ==
  /\ pc' = [pc EXCEPT ![p] = "done"]
  /\ outcome' = [outcome EXCEPT ![p] = [st |-> "ok", by |-> Null]]
  /\ hist' = [Mark(p) EXCEPT !.readyCleared = @ \/ availabilityStatus # ""]
  /\ UNCHANGED <<awaiting, merged, cparams, job, waiters, creating>>

\* mutant: the joiner returns without awaiting the creation in flight
JoinCreating_noAwait(p) ==
  /\ pc' = [pc EXCEPT ![p] = "done"]
  /\ awaiting' = [awaiting EXCEPT ![p] = creating]
  /\ outcome' = [outcome EXCEPT ![p] = [st |-> "ok", by |-> creating]]
  /\ hist' = Mark(p)
  /\ UNCHANGED <<merged, cparams, job, waiters, creating>>

\* `if (this.creating) { await this.creating; return; }`
JoinCreating(p) ==
  /\ pc' = [pc EXCEPT ![p] = "joined"]
  /\ awaiting' = [awaiting EXCEPT ![p] = creating]
  /\ waiters' = [waiters EXCEPT ![creating] = Append(@, p)]
  /\ hist' = Mark(p)
  /\ UNCHANGED <<merged, cparams, job, outcome, creating>>

\* mutant: the API object is not tested and create() is called on it
ThrowNoApi_create(p) == StartCreate(p, opts, Mark(p))

\* `if (!self.Writer) throw new Error(..)` and its two siblings
ThrowNoApi(p) ==
  /\ pc' = [pc EXCEPT ![p] = "done"]
  /\ outcome' = [outcome EXCEPT ![p] = [st |-> "no-api", by |-> Null]]
  /\ hist' = Mark(p)
  /\ UNCHANGED <<awaiting, merged, cparams, job, waiters, creating>>

\* PromptClient: merge, then `await this._getTuningParams(params)`
AwaitParams(p, prm) ==
  /\ pc' = [pc EXCEPT ![p] = "params"]
  /\ merged' = [merged EXCEPT ![p] = Merge(opts, prm)]
  /\ cparams' = [cparams EXCEPT ![p] = prm]
  /\ hist' = [Mark(p) EXCEPT !.paramsCalls = @ + 1]
  /\ UNCHANGED <<awaiting, job, waiters, outcome, creating>>

\* mutant: the reset is placed after the session check
AcquireReset_late == availabilityStatus' = IF session # Null THEN availabilityStatus ELSE ""

\* `this.availabilityStatus = null;` the first statement of initFromUserGesture
AcquireReset == availabilityStatus' = ""

\* initFromUserGesture(params), up to its first await or its return
AcquireCall(p, prm) ==
  /\ pc[p] = "idle" /\ Ops < MaxOps
  /\ IF p = 1 THEN TRUE ELSE pc[p - 1] # "idle"
  /\ AcquireReset
  /\ AcquireFrame
  /\ IF session # Null THEN ReadyReturn(p)
     ELSE IF creating # Null THEN JoinCreating(p)
     ELSE IF ~apiPresent THEN ThrowNoApi(p)
     ELSE IF kind = "LanguageModel" THEN AwaitParams(p, prm)
     ELSE StartCreate(p, Merge(opts, prm), Mark(p))

\* initFromUserGesture(params) with params that carry no callback and no signal
Acquire(p, prm) == AcquireCall(p, prm) /\ UNCHANGED <<acq, strm, cacheVars, panelVars, uiVars>>

\* PromptClient: LanguageModel.params() answered; tune, then create()
ParamsResolve(p) ==
  /\ pc[p] = "params"
  /\ LET t == TuningParams(cparams[p], opts, modelParams)
     IN StartCreate(p, [merged[p] EXCEPT !.temperature = t.temperature, !.topK = t.topK], hist)
  /\ UNCHANGED <<acq, strm, cacheVars, panelVars, uiVars, kind, apiPresent, modelParams, session, opts, availabilityStatus, mq,
                 probe, clone, destroyed, disp>>

\* PromptClient: LanguageModel.params() failed; initFromUserGesture rejects
ParamsReject(p) ==
  /\ pc[p] = "params"
  /\ pc' = [pc EXCEPT ![p] = "done"]
  /\ outcome' = [outcome EXCEPT ![p] = [st |-> "params-error", by |-> Null]]
  /\ merged' = [merged EXCEPT ![p] = defaultOpts]
  /\ cparams' = [cparams EXCEPT ![p] = NoParams]
  /\ UNCHANGED <<acq, strm, cacheVars, panelVars, uiVars, kind, apiPresent, modelParams, session, creating, opts, availabilityStatus, awaiting,
                 job, waiters, mq, probe, clone, destroyed, disp, hist>>

\* ------------------------------------------ settlement of a create() promise
\* what the `.then` handler stores in this.opts: only PromptClient persists merged
OptsAfterCreate(j) == IF kind = "LanguageModel" THEN merged[j] ELSE opts

\* the backend fulfilled create(): `.then((s) => { this.session = s; .. })`
CreateResolve(j) ==
  /\ j \in Callers /\ job[j] = "inflight"
  /\ session' = j
  /\ opts' = OptsAfterCreate(j)
  /\ job' = [job EXCEPT ![j] = "fulfilled"]
  /\ merged' = [merged EXCEPT ![j] = defaultOpts]
  /\ cparams' = [cparams EXCEPT ![j] = NoParams]
  /\ UNCHANGED <<acq, strm, cacheVars, panelVars, uiVars, kind, apiPresent, modelParams, creating, availabilityStatus, pc, awaiting,
                 waiters, mq, outcome, probe, clone, destroyed, disp, hist>>

\* the backend rejected create(): the `.then` handler is skipped
CreateReject(j) ==
  /\ j \in Callers /\ job[j] = "inflight"
  /\ job' = [job EXCEPT ![j] = "rejected"]
  /\ merged' = [merged EXCEPT ![j] = defaultOpts]
  /\ cparams' = [cparams EXCEPT ![j] = NoParams]
  /\ UNCHANGED <<acq, strm, cacheVars, panelVars, uiVars, kind, apiPresent, modelParams, session, creating, opts, availabilityStatus, pc,
                 awaiting, waiters, mq, outcome, probe, clone,
                 destroyed, disp, hist>>

\* the reactions of a settled promise are queued in registration order
Reactions(j) == waiters[j]

\* `.finally(() => { this.creating = undefined; })`, then the promise settles
CreateFinally(j) ==
  /\ j \in Callers /\ job[j] \in {"fulfilled", "rejected"}
  /\ creating' = Null
  /\ job' = [job EXCEPT ![j] = IF job[j] = "fulfilled" THEN "settledOk" ELSE "settledErr"]
  /\ mq' = mq \o Reactions(j)
  /\ UNCHANGED <<acq, strm, cacheVars, panelVars, uiVars, kind, apiPresent, modelParams, session, opts, availabilityStatus, pc, awaiting,
                 merged, cparams, waiters, outcome, probe, clone, destroyed, disp, hist>>

\* the code after `await this.creating` of the call at the head of the queue
Resume ==
  /\ mq # <<>>
  /\ LET p == Head(mq)
         j == awaiting[p]
     IN /\ pc' = [pc EXCEPT ![p] = "done"]
        /\ outcome' = [outcome EXCEPT ![p] =
                         [st |-> IF job[j] = "settledOk" THEN "ok" ELSE "create-error", by |-> j]]
  /\ mq' = Tail(mq)
  /\ UNCHANGED <<acq, strm, cacheVars, panelVars, uiVars, kind, apiPresent, modelParams, session, creating, opts, availabilityStatus, awaiting,
                 merged, cparams, job, waiters, probe, clone, destroyed, disp, hist>>

\* ---------------------------------------------------------------- dispose()
\* mutant: destroy() is called outside a try block
DisposeOutcome_nocatch(s, destroyThrows) == [threw |-> destroyThrows, reset |-> ~destroyThrows]

\* try { this.session?.destroy?.() } catch (e) { console.warn(..) }:
\* the catch absorbs what destroy() raises and the three resets always run
DisposeOutcome(s, destroyThrows) == [threw |-> FALSE, reset |-> TRUE]

\* mutant: dispose() forgets to drop the session reference
AfterDispose_keepSession == [session |-> session, creating |-> Null, availabilityStatus |-> ""]

\* `this.session = null; this.creating = undefined; this.availabilityStatus = null;`
AfterDispose == [session |-> Null, creating |-> Null, availabilityStatus |-> ""]

Dispose(destroyThrows) ==
  /\ disp.n < MaxDispose /\ Ops < MaxOps
  /\ session = Null => ~destroyThrows
  /\ LET r == DisposeOutcome(session, destroyThrows)
         a == IF r.reset THEN AfterDispose
              ELSE [session |-> session, creating |-> creating,
                    availabilityStatus |-> availabilityStatus]
     IN /\ session' = a.session
        /\ creating' = a.creating
        /\ availabilityStatus' = a.availabilityStatus
        /\ disp' = [n |-> disp.n + 1, hadSession |-> session # Null,
                    destroyThrew |-> destroyThrows, threw |-> r.threw]
  /\ destroyed' = IF session # Null THEN destroyed \cup {session} ELSE destroyed
  /\ hist' = [hist EXCEPT !.stale = @ \cup InFlight,
                          !.released = IF session # Null THEN @ \cup {session} ELSE @]
  /\ UNCHANGED <<acq, strm, cacheVars, panelVars, uiVars, kind, apiPresent, modelParams, opts, pc, awaiting, merged, cparams, job, waiters, mq,
                 outcome, probe, clone>>

\* ----------------------------------------------------------------- setOpts()
\* mutant: setOpts drops the session so that the next acquire() recreates it
SessionAfterSetOpts_reset == Null

\* setOpts has one statement and it does not name this.session
SessionAfterSetOpts == session

\* `this.opts = { ...this.opts, ...next }`
SetOpts(next) ==
  /\ Ops < MaxOps
  /\ opts' = Merge(opts, next)
  /\ opts' # opts
  /\ session' = SessionAfterSetOpts
  /\ hist' = [hist EXCEPT !.setOptsCalls = @ + 1]
  /\ UNCHANGED <<acq, strm, cacheVars, panelVars, uiVars, kind, apiPresent, modelParams, creating, availabilityStatus, pc,
                 awaiting, merged, cparams, job, waiters, mq, outcome, probe, clone,
                 destroyed, disp>>

\* ------------------------------------------------------------ availability()
\* the states each client passes as knownStates
KnownStatesOf(k) == IF k = "LanguageModel" THEN KnownStates \cup {"no-api"} ELSE KnownStates

\* mutant: the await is outside a try block and the failure propagates
Classify_rethrow(k, answer) ==
  IF answer \in KnownStatesOf(k) \cup {"throw"} THEN answer ELSE "unknown"

\* checkModelAvailability, after `await modelApi.availability()` answered or threw
Classify(k, answer) ==
  IF answer = "throw" THEN "unavailable"
  ELSE IF answer \in KnownStatesOf(k) THEN answer
  ELSE "unknown"

\* mutant: the cached value is returned to a forced probe too
UseCache_ignoreForce(force) == availabilityStatus # ""

\* `if (this.availabilityStatus && !force) return this.availabilityStatus;`
UseCache(force) == availabilityStatus # "" /\ ~force

\* mutant: checkModelAvailability does not test whether the API object exists
PreCheck_noApiTest(hasFn) == IF ~hasFn THEN "unknown" ELSE ""

\* checkModelAvailability before its try block: the value it returns without
\* calling the backend, or "" when it goes on to `await modelApi.availability()`
PreCheck(hasFn) ==
  IF ~apiPresent THEN "no-api"
  ELSE IF ~hasFn THEN "unknown"
  ELSE ""

\* availability(force), up to its return or to `await checkModelAvailability(..)`;
\* hasFn: the API object has an availability() method
ProbeStart(q, force, hasFn) ==
  /\ probe[q].pc = "idle" /\ Ops < MaxOps
  /\ IF q = 1 THEN TRUE ELSE probe[q - 1].pc # "idle"
  /\ IF UseCache(force)
       THEN /\ probe' = [probe EXCEPT ![q] = [pc |-> "done", force |-> force, answer |-> "",
                                              result |-> availabilityStatus]]
            /\ UNCHANGED hist
       ELSE IF PreCheck(hasFn) # ""
         THEN /\ probe' = [probe EXCEPT ![q] = [pc |-> "wait", force |-> force, answer |-> "",
                                                result |-> PreCheck(hasFn)]]
              /\ UNCHANGED hist
       ELSE /\ probe' = [probe EXCEPT ![q] = [pc |-> "query", force |-> force, answer |-> "",
                                              result |-> ""]]
            /\ hist' = [hist EXCEPT !.availCalls = @ + 1]
  /\ UNCHANGED <<acq, strm, cacheVars, panelVars, uiVars, kind, apiPresent, modelParams, session, creating, opts, availabilityStatus,
                 pc, awaiting, merged, cparams, job, waiters, mq, outcome, clone,
                 destroyed, disp>>

\* `const status = await checkModelAvailability(..); this.availabilityStatus = status;`
\* answer: what the backend's availability() did, when it was called
ProbeFinish(q, answer) ==
  /\ probe[q].pc \in {"wait", "query"}
  /\ probe[q].pc = "wait" => answer = "throw"     \* no backend call: the answer is unused
  /\ LET queried == probe[q].pc = "query"
         status == IF queried THEN Classify(kind, answer) ELSE probe[q].result
     IN /\ availabilityStatus' = status
        /\ probe' = [probe EXCEPT ![q] = [pc |-> "done", force |-> probe[q].force,
                                          answer |-> IF queried THEN answer ELSE "",
                                          result |-> status]]
        /\ hist' = [hist EXCEPT !.noBackend = IF status = "no-api" THEN TRUE
                                              ELSE IF probe[q].force THEN FALSE ELSE @]
  /\ UNCHANGED <<acq, strm, cacheVars, panelVars, uiVars, kind, apiPresent, modelParams, session, creating, opts, pc, awaiting,
                 merged, cparams, job, waiters, mq, outcome, clone, destroyed, disp>>

\* mutant: the test of this.session is missing
NotInitialized_never == FALSE

\* `if (!this.session)`: the manager holds no session
NotInitialized == session = Null

\* ------------------------------------------ cloneSession() and resetContext()
\* PromptClient.cloneSession({makeActive}) up to `await this.session.clone(..)`;
\* without a session it throws (resetContext: returns) and nothing changes
CloneStart(c, makeActive) ==
  /\ kind = "LanguageModel"
  /\ clone[c].pc = "idle" /\ Ops < MaxOps
  /\ IF c = MaxCalls + 1 THEN TRUE ELSE clone[c - 1].pc # "idle"
  /\ IF NotInitialized
       THEN /\ clone' = [clone EXCEPT ![c] = [pc |-> "failed", src |-> Null, makeActive |-> makeActive]]
            /\ UNCHANGED <<job, hist>>
       ELSE /\ clone' = [clone EXCEPT ![c] = [pc |-> "await", src |-> session, makeActive |-> makeActive]]
            /\ job' = [job EXCEPT ![c] = "inflight"]
            /\ hist' = [hist EXCEPT !.cloneCalls = @ + 1]
  /\ UNCHANGED <<acq, strm, cacheVars, panelVars, uiVars, kind, apiPresent, modelParams, session, creating, opts, availabilityStatus,
                 pc, awaiting, merged, cparams, waiters, mq, outcome, probe, destroyed, disp>>

\* what cloneSession stores in this.session once clone() has answered
SessionAfterClone(c) == IF clone[c].makeActive THEN c ELSE session

\* `const cloned = await this.session.clone(..); if (makeActive) this.session = cloned;`
CloneResolve(c) ==
  /\ c \in CloneIds /\ job[c] = "inflight"
  /\ session' = SessionAfterClone(c)
  /\ job' = [job EXCEPT ![c] = "settledOk"]
  /\ clone' = [clone EXCEPT ![c].pc = "done"]
  /\ UNCHANGED <<acq, strm, cacheVars, panelVars, uiVars, kind, apiPresent, modelParams, creating, opts, availabilityStatus, pc,
                 awaiting, merged, cparams, waiters, mq, outcome, probe, destroyed, disp, hist>>

\* clone() rejected: cloneSession rejects and nothing changes
CloneReject(c) ==
  /\ c \in CloneIds /\ job[c] = "inflight"
  /\ job' = [job EXCEPT ![c] = "settledErr"]
  /\ clone' = [clone EXCEPT ![c].pc = "failed"]
  /\ UNCHANGED <<acq, strm, cacheVars, panelVars, uiVars, kind, apiPresent, modelParams, session, creating, opts, availabilityStatus,
                 pc, awaiting, merged, cparams, waiters, mq, outcome, probe, destroyed,
                 disp, hist>>

Next ==
  \/ \E p \in Callers, prm \in ParamSet : Acquire(p, prm)
  \/ \E dt \in BOOLEAN : Dispose(dt)
  \/ \E next \in SetOptsSet : SetOpts(next)
  \/ \E q \in ProbeIds, force \in BOOLEAN, hasFn \in BOOLEAN : ProbeStart(q, force, hasFn)
  \/ \E c \in CloneIds, makeActive \in BOOLEAN : CloneStart(c, makeActive)
  \/ \E p \in Callers : ParamsResolve(p)
  \/ \E p \in Callers : ParamsReject(p)
  \/ \E j \in Callers : CreateResolve(j)
  \/ \E j \in Callers : CreateReject(j)
  \/ \E j \in Callers : CreateFinally(j)
  \/ Resume
  \/ \E q \in ProbeIds, answer \in ProbeAnswers : ProbeFinish(q, answer)
  \/ \E c \in CloneIds : CloneResolve(c)
  \/ \E c \in CloneIds : CloneReject(c)

Spec == Init /\ [][Next]_vars

\* ------------------------------------------------- download progress, abort
\* e.loaded of a downloadprogress event, a fraction in [0..1], in percent
ProgressValues == {0, 50, 100}

\* initFromUserGesture(params) with params.onDownloadProgress (cb) and
\* params.signal (tok) present or absent
AcquireMonitored(p, cb, tok) ==
  /\ AcquireCall(p, NoParams)
  /\ acq' = [acq EXCEPT ![p] = [cb |-> cb, token |-> IF tok THEN "armed" ELSE "none",
                                seen |-> <<>>]]
  /\ UNCHANGED <<strm, cacheVars, panelVars, uiVars>>

\* the signal reaches the backend: only PromptClient puts `signal: params?.signal`
\* into the options of create(); the other two clients build them without it
Forwarded(p) == kind = "LanguageModel" /\ acq[p].token # "none"

\* mutant: the listener of every call is attached to the creation in flight
Listening_joiners(j) == acq[j].cb /\ CreatesInFlight # {}

\* `monitor: (m) => { if (params?.onDownloadProgress) m.addEventListener(..) }`:
\* the creation of call j is in flight and has a listener
Listening(j) == job[j] = "inflight" /\ acq[j].cb

\* progress values delivered so far, to all callbacks together
RECURSIVE SumSeen(_)
SumSeen(ps) == IF ps = {} THEN 0
               ELSE LET p == CHOOSE x \in ps : TRUE IN Len(acq[p].seen) + SumSeen(ps \ {p})
Events == SumSeen(Callers)

\* the backend dispatches "downloadprogress" with e.loaded = v and the listener
\* calls `params.onDownloadProgress(e.loaded)`; a creation whose signal the
\* backend knows to be aborted is cancelled and reports no more progress
DownloadProgress(j, v) ==
  /\ Listening(j)
  /\ ~(Forwarded(j) /\ acq[j].token = "signaled")
  /\ Events < MaxEvents
  /\ acq' = [acq EXCEPT ![j].seen = Append(@, v)]
  /\ UNCHANGED <<lifeVars, strm, cacheVars, panelVars, uiVars>>

\* the caller aborts the signal it passed to initFromUserGesture
SignalToken(p) ==
  /\ acq[p].token = "armed"
  /\ acq' = [acq EXCEPT ![p].token = "signaled"]
  /\ UNCHANGED <<lifeVars, strm, cacheVars, panelVars, uiVars>>

NextProgress ==
  \/ \E p \in Callers, cb \in BOOLEAN, tok \in BOOLEAN : AcquireMonitored(p, cb, tok)
  \/ \E p \in Callers : ParamsResolve(p)
  \/ \E p \in Callers : ParamsReject(p)
  \/ \E j \in Callers : CreateResolve(j)
  \/ \E j \in Callers : CreateReject(j)
  \/ \E j \in Callers : CreateFinally(j)
  \/ Resume
  \/ \E j \in Callers, v \in ProgressValues : DownloadProgress(j, v)
  \/ \E p \in Callers : SignalToken(p)

SpecProgress == Init /\ [][NextProgress]_vars

\* acquire() calls with and without a callback, none with a signal, where the
\* backend API is present
NextJoin ==
  \/ \E p \in Callers, cb \in BOOLEAN : AcquireMonitored(p, cb, FALSE)
  \/ \E p \in Callers : ParamsResolve(p)
  \/ \E j \in Callers : CreateResolve(j)
  \/ \E j \in Callers : CreateReject(j)
  \/ \E j \in Callers : CreateFinally(j)
  \/ Resume
  \/ \E j \in Callers, v \in ProgressValues : DownloadProgress(j, v)

InitJoin == Init /\ apiPresent

SpecJoin == InitJoin /\ [][NextJoin]_vars

\* a PromptClient that negotiates its sampling parameters: acquire() with any
\* request, setOpts() with any baseline, release and acquire again
NextTuning ==
  \/ \E p \in Callers, prm \in TuningSet : Acquire(p, prm)
  \/ \E p \in Callers : ParamsResolve(p)
  \/ \E j \in Callers : CreateResolve(j)
  \/ \E j \in Callers : CreateFinally(j)
  \/ Resume
  \/ \E next \in TuningSet : SetOpts(next)
  \/ Dispose(FALSE)

InitTuning == Init /\ kind = "LanguageModel" /\ apiPresent

SpecTuning == InitTuning /\ [][NextTuning]_vars

\* ------------------------------------------------------ streaming generation
\* a text is a sequence of characters: a blank, a letter, and the two characters
\* the prompt templates add (a word of the instruction, a quotation mark)
Chars == {" ", "a"}
Texts == UNION {[1..n -> Chars] : n \in 0..MaxLen}

RECURSIVE TrimLeft(_)
TrimLeft(t) == IF t # <<>> /\ Head(t) = " " THEN TrimLeft(Tail(t)) ELSE t

RECURSIVE TrimRight(_)
TrimRight(t) == IF t # <<>> /\ t[Len(t)] = " " THEN TrimRight(SubSeq(t, 1, Len(t) - 1)) ELSE t

\* String.prototype.trim()
Trim(t) == TrimRight(TrimLeft(t))

\* .replace(/\s+/g, " "): every run of blanks becomes one blank
RECURSIVE Collapse(_)
Collapse(t) ==
  IF Len(t) < 2 THEN t
  ELSE IF t[1] = " " /\ t[2] = " " THEN Collapse(Tail(t))
  ELSE <<t[1]>> \o Collapse(Tail(t))

\* `text.trim().replace(/\s+/g, " ")`
Squeeze(t) == Collapse(Trim(t))

\* the builders of generateELI5Stream and its siblings: instruction, blank line,
\* then the text between quotation marks
Template(t) == <<"w", " ", "q">> \o t \o <<"q">>

\* the streaming methods of each client; generateELI5Stream stands for the four
\* methods that hand a template to _runStreamingPrompt
MethodsOf(k) ==
  IF k = "Summarizer" THEN {"summarizeStreaming"}
  ELSE IF k = "Writer" THEN {"writeStreaming"}
  ELSE {"promptStreaming", "generateELI5Stream", "generateStatementStream"}

StreamMethods == UNION {MethodsOf(k) : k \in Kinds}

\* the input the method hands to the session's streaming call
BackendInput(m, t) ==
  IF m = "promptStreaming" THEN Trim(t)          \* normalizePromptInput
  ELSE IF m \in {"summarizeStreaming", "writeStreaming"} THEN Squeeze(t)
  ELSE Squeeze(Template(t))

\* `if (!input) return emptyGenerator();` promptStreaming has no such test
ShortCircuit(m, t) == m # "promptStreaming" /\ BackendInput(m, t) = <<>>

\* the streaming call itself, up to the stream it returns or the error it throws;
\* generateStatementStream returns its generator without looking at the session
StreamCall(m, t, tok) ==
  /\ strm.pc = "idle" /\ Ops < MaxOps
  /\ m \in MethodsOf(kind)
  /\ LET call == [NoStream EXCEPT !.method = m, !.text = t,
                                   !.token = IF tok THEN "armed" ELSE "none"]
     IN strm' = IF m = "generateStatementStream" THEN [call EXCEPT !.pc = "lazy"]
                ELSE IF NotInitialized THEN [call EXCEPT !.pc = "threw"]
                ELSE IF ShortCircuit(m, t) THEN [call EXCEPT !.pc = "open"]
                ELSE [call EXCEPT !.pc = "open", !.backend = TRUE, !.sess = session]
  /\ UNCHANGED <<lifeVars, acq, cacheVars, panelVars, uiVars>>

\* mutant: the generator has no catch block and the error reaches the consumer
StatementCatch_rethrow(st) == [st EXCEPT !.pc = "failed"]

\* `catch (e) { console.error(..); yield "Error generating statement."; }`
StatementCatch(st) == [st EXCEPT !.pc = "ended", !.delivered = @ + 1, !.diag = TRUE]

\* the consumer pulls for the first time and the generator of
\* generateStatementStream starts: `await promptFn()` runs _runStreamingPrompt,
\* which throws without a session; the catch block yields the diagnostic text
StatementPull ==
  /\ strm.pc = "lazy"
  /\ strm' = IF session = Null
               THEN StatementCatch(strm)
               ELSE [strm EXCEPT !.pc = "inner", !.backend = TRUE, !.sess = session]
  /\ UNCHANGED <<lifeVars, acq, cacheVars, panelVars, uiVars>>

\* the backend's stream of a call in progress is being read: by the consumer
\* (pc "open") or by _runSinglePrompt inside the statement generator ("inner")
Reading == strm.backend /\ strm.pc \in {"open", "inner"}

\* the backend's stream can still produce: its signal was not aborted and its
\* session was not destroyed ("After destroy(), all further calls reject")
Producing == Reading /\ strm.token # "signaled" /\ strm.sess \notin destroyed

\* the backend produces the next fragment; _runSinglePrompt appends it to its
\* text, every other method's stream is the backend's own and hands it to the
\* consumer
BackendFragment ==
  /\ Producing /\ strm.read < MaxFrags
  /\ strm' = [strm EXCEPT !.read = @ + 1,
                           !.delivered = IF strm.pc = "open" THEN @ + 1 ELSE @]
  /\ UNCHANGED <<lifeVars, acq, cacheVars, panelVars, uiVars>>

\* the backend's stream completes; the statement generator yields the text
BackendEnd ==
  /\ Producing
  /\ strm' = [strm EXCEPT !.pc = "ended",
                           !.delivered = IF strm.pc = "inner" THEN @ + 1 ELSE @]
  /\ UNCHANGED <<lifeVars, acq, cacheVars, panelVars, uiVars>>

\* the backend's stream raises, of itself, because its signal was aborted or
\* because its session was destroyed:
\* the consumer of a pass-through stream gets the error, the statement
\* generator catches it and yields "Error generating statement."
BackendFail ==
  /\ Reading
  /\ strm' = IF strm.pc = "inner"
               THEN StatementCatch(strm)
               ELSE [strm EXCEPT !.pc = "failed"]
  /\ UNCHANGED <<lifeVars, acq, cacheVars, panelVars, uiVars>>

\* the consumer pulls from emptyGenerator(): done at once
EmptyEnd ==
  /\ strm.pc = "open" /\ ~strm.backend
  /\ strm' = [strm EXCEPT !.pc = "ended"]
  /\ UNCHANGED <<lifeVars, acq, cacheVars, panelVars, uiVars>>

\* the caller aborts the signal it passed to the streaming call
CancelStream ==
  /\ strm.pc \in {"lazy", "open", "inner"} /\ strm.token = "armed"
  /\ strm' = [strm EXCEPT !.token = "signaled"]
  /\ UNCHANGED <<lifeVars, acq, cacheVars, panelVars, uiVars>>

NextStream ==
  \/ \E p \in Callers : Acquire(p, NoParams)
  \/ \E p \in Callers : ParamsResolve(p)
  \/ \E j \in Callers : CreateResolve(j)
  \/ \E j \in Callers : CreateFinally(j)
  \/ Resume
  \/ \E m \in StreamMethods, t \in Texts, tok \in BOOLEAN : StreamCall(m, t, tok)
  \/ StatementPull
  \/ BackendFragment
  \/ BackendEnd
  \/ BackendFail
  \/ EmptyEnd
  \/ CancelStream
  \/ Dispose(FALSE)

SpecStream == Init /\ [][NextStream]_vars

\* a PromptClient; the sampling limits of the device play no part in its
\* generations
InitPrompt == Init /\ kind = "LanguageModel" /\ modelParams.maxTopK # 0

\* the streaming generations of PromptClient: none of its templates is empty,
\* so it never hands out the empty stream
NextPrompt ==
  \/ \E p \in Callers : Acquire(p, NoParams)
  \/ \E p \in Callers : ParamsResolve(p)
  \/ \E j \in Callers : CreateResolve(j)
  \/ \E j \in Callers : CreateFinally(j)
  \/ Resume
  \/ \E m \in StreamMethods, t \in Texts, tok \in BOOLEAN : StreamCall(m, t, tok)
  \/ StatementPull
  \/ BackendFragment
  \/ BackendEnd
  \/ BackendFail
  \/ CancelStream
  \/ Dispose(FALSE)

SpecPrompt == InitPrompt /\ [][NextPrompt]_vars

\* ------------------------------------------------- single-shot generation
\* the single-shot methods of each client
GenerateMethodsOf(k) ==
  IF k = "Summarizer" THEN {"summarize"}
  ELSE IF k = "Writer" THEN {"write"}
  ELSE {"prompt", "append"}

GenerateMethods == UNION {GenerateMethodsOf(k) : k \in Kinds}

\* summarize(), write(), prompt() and append() up to the session's call, the
\* early return of "" for blank input (summarize, write) or the error thrown
GenerateCall(m, t) ==
  /\ strm.pc = "idle" /\ Ops < MaxOps
  /\ m \in GenerateMethodsOf(kind)
  /\ LET call == [NoStream EXCEPT !.method = m, !.text = t]
     IN strm' = IF NotInitialized THEN [call EXCEPT !.pc = "threw"]
                ELSE IF m \in {"summarize", "write"} /\ Squeeze(t) = <<>>
                  THEN [call EXCEPT !.pc = "ended"]
                ELSE [call EXCEPT !.pc = "called", !.backend = TRUE, !.sess = session]
  /\ UNCHANGED <<lifeVars, acq, cacheVars, panelVars, uiVars>>

\* every generation method and the session copy, on a manager that is acquired
\* and released
NextGenerate ==
  \/ \E p \in Callers : Acquire(p, NoParams)
  \/ \E p \in Callers : ParamsResolve(p)
  \/ \E j \in Callers : CreateResolve(j)
  \/ \E j \in Callers : CreateFinally(j)
  \/ Resume
  \/ Dispose(FALSE)
  \/ \E m \in StreamMethods, t \in Texts, tok \in BOOLEAN : StreamCall(m, t, tok)
  \/ \E m \in GenerateMethods, t \in Texts : GenerateCall(m, t)
  \/ \E c \in CloneIds, makeActive \in BOOLEAN : CloneStart(c, makeActive)
  \/ \E c \in CloneIds : CloneResolve(c)

SpecGenerate == Init /\ [][NextGenerate]_vars

\* ------------------------------------------------ getPairForCard(card, signal)
\* both generations of call c have returned their sentence (`text.trim()`);
\* two runs of the model need not give the same sentence, so the sentences of a
\* call are named by the call
BothDone(c) == pcall[c].t = "done" /\ pcall[c].f = "done"

\* mutant: the cache is never consulted
Hit_never(id) == FALSE

\* `const hit = this.pairCache.get(card.id); if (hit) ..`
Hit(id) == pairCache[id].has

\* the call up to `await Promise.all([..])`, with a signal that is aborted or
\* never is: a card without id throws, a cache
\* hit returns the stored pair; otherwise _generateTrueSentence and
\* _generateFalseSentence both run to their first await, where
\* _runStreamingPrompt throws without a session and else calls
\* session.promptStreaming(raw, { signal })
PairCall(c, id) ==
  /\ kind = "LanguageModel"
  /\ pcall[c].pc = "idle" /\ Ops < MaxOps
  /\ \A d \in PairCalls : d < c => pcall[d].pc # "idle"
  /\ LET call == [NoPairCall EXCEPT !.id = id,
                     !.seq = \A d \in PairCalls : pcall[d].id = id => pcall[d].pc # "gen"]
     IN pcall' = [pcall EXCEPT ![c] =
          IF id = 0 THEN [call EXCEPT !.pc = "threw"]
          ELSE IF Hit(id) THEN [call EXCEPT !.pc = "hit", !.ret = pairCache[id]]
          ELSE IF session = Null THEN [call EXCEPT !.pc = "gen", !.t = "fail", !.f = "fail"]
          ELSE [call EXCEPT !.pc = "gen", !.t = "run", !.f = "run", !.sess = session]]
  /\ UNCHANGED <<lifeVars, acq, strm, pairCache, panelVars, uiVars>>

\* the backend stream of generation w of call c can still complete: the call's
\* signal was not aborted and the session was not destroyed
Generating(c, w) ==
  /\ pcall[c].pc = "gen" /\ pcall[c][w] = "run"
  /\ pcall[c].token # "signaled" /\ pcall[c].sess \notin destroyed

\* _runSinglePrompt has read the stream to its end and returns the text
GenEnd(c, w) ==
  /\ Generating(c, w)
  /\ pcall' = [pcall EXCEPT ![c][w] = "done"]
  /\ UNCHANGED <<lifeVars, acq, strm, pairCache, panelVars, uiVars>>

\* mutant: a failed generation makes the client drop its session
SessionAfterFailure_drop == Null

\* no method that generates has a catch block: this.session is what it was
SessionAfterFailure == session

\* the stream raises, of itself, because the signal was aborted or because the
\* session was destroyed: _runSinglePrompt rejects
GenFail(c, w) ==
  /\ pcall[c].pc = "gen" /\ pcall[c][w] = "run"
  /\ pcall' = [pcall EXCEPT ![c][w] = "fail"]
  /\ session' = SessionAfterFailure
  /\ UNCHANGED <<lifeRest, acq, strm, pairCache, panelVars, uiVars>>

\* what the continuation stores: `this.pairCache.set(card.id, pair)`
StorePair(c, pair) == [pairCache EXCEPT ![pcall[c].id] = pair]

\* mutant: the call stores a pair although a generation has failed
AfterFailure_store(c) == StorePair(c, [has |-> TRUE, by |-> c])

\* the cache after `await Promise.all([..])` has thrown: the call is left there
AfterFailure(c) == pairCache

\* a call that has returned: its locals are gone, its history stays
Settled(c, how, pair) ==
  [NoPairCall EXCEPT !.pc = how, !.id = pcall[c].id, !.ret = pair, !.sess = pcall[c].sess,
                     !.early = pcall[c].early, !.seq = pcall[c].seq]

\* Promise.all settles and the call resumes: it rejects as soon as one
\* generation has failed; when both have returned it builds the pair, stores it
\* and returns it
PairSettle(c) ==
  /\ pcall[c].pc = "gen"
  /\ \/ /\ "fail" \in {pcall[c].t, pcall[c].f}
        /\ pcall' = [pcall EXCEPT ![c] = Settled(c, "threw", NoPair)]
        /\ pairCache' = AfterFailure(c)
     \/ /\ BothDone(c)
        /\ LET pair == [has |-> TRUE, by |-> c]
           IN /\ pairCache' = StorePair(c, pair)
              /\ pcall' = [pcall EXCEPT ![c] = Settled(c, "ok", pair)]
  /\ UNCHANGED <<lifeVars, acq, strm, panelVars, uiVars>>

\* the caller aborts the signal it passed to getPairForCard
SignalPair(c) ==
  /\ pcall[c].pc = "gen" /\ pcall[c].token = "armed"
  /\ pcall' = [pcall EXCEPT ![c].token = "signaled", ![c].early = ~BothDone(c)]
  /\ UNCHANGED <<lifeVars, acq, strm, pairCache, panelVars, uiVars>>

NextPair ==
  \/ \E p \in Callers : Acquire(p, NoParams)
  \/ \E p \in Callers : ParamsResolve(p)
  \/ \E j \in Callers : CreateResolve(j)
  \/ \E j \in Callers : CreateFinally(j)
  \/ Resume
  \/ Dispose(FALSE)
  \/ \E c \in CloneIds : CloneStart(c, TRUE)
  \/ \E c \in CloneIds : CloneResolve(c)
  \/ \E c \in PairCalls, id \in CardIds : PairCall(c, id)
  \/ \E c \in PairCalls, w \in {"t", "f"} : GenEnd(c, w)
  \/ \E c \in PairCalls, w \in {"t", "f"} : GenFail(c, w)
  \/ \E c \in PairCalls : PairSettle(c)
  \/ \E c \in PairCalls : SignalPair(c)

\* the pair cache is a field of PromptClient
InitPair == InitPrompt /\ apiPresent

SpecPair == InitPair /\ [][NextPair]_vars

\* ------------------------------------------- content script: panel and streams
\* a character of panel text: what it is and, as history, the selection of the
\* stream it came from (0: text the script wrote itself)
Piece(ch, sel) == [ch |-> ch, sel |-> sel]

\* the string a panel text holds
StringOf(text) == [i \in 1..Len(text) |-> text[i].ch]

\* initPanelForText(text, rect): a new panelData object replaces the old one and
\* both streamPromptIntoField() calls run up to `await getStream()`
OpenPanel ==
  /\ panelData.sel < MaxPanels
  /\ LET n == panelData.sel + 1
     IN /\ panelData' = [NoPanel EXCEPT !.sel = n, !.loading = [f \in Fields |-> TRUE]]
        /\ feed' = [s \in FeedIds |-> IF s[1] = n THEN [NoFeed EXCEPT !.pc = "await"] ELSE feed[s]]
  /\ UNCHANGED <<lifeVars, acq, strm, cacheVars, uiVars>>

\* getStream() resolves with the backend's stream
FeedOpen(s) ==
  /\ feed[s].pc = "await"
  /\ feed' = [feed EXCEPT ![s].pc = "open"]
  /\ UNCHANGED <<lifeVars, acq, strm, cacheVars, panelData, uiVars>>

\* a streamPromptIntoField() call that has returned
Returned(s) == [NoFeed EXCEPT !.pc = "returned", !.made = feed[s].made]

\* mutant: the catch block leaves the loading flag set
Caught_keepLoading(s) == [panelData EXCEPT !.error[s[2]] = TRUE]

\* the catch block: loading off and the error text set, in the panelData of now
Caught(s) == [panelData EXCEPT !.loading[s[2]] = FALSE, !.error[s[2]] = TRUE]

\* getStream() rejects (no session)
FeedThrow(s) ==
  /\ feed[s].pc = "await"
  /\ feed' = [feed EXCEPT ![s] = Returned(s)]
  /\ panelData' = Caught(s)
  /\ UNCHANGED <<lifeVars, acq, strm, cacheVars, uiVars>>

\* fragments produced so far, for all streams together
RECURSIVE SumProduced(_)
SumProduced(ss) == IF ss = {} THEN 0
                   ELSE LET s == CHOOSE x \in ss : TRUE
                        IN feed[s].made + SumProduced(ss \ {s})
Chunks == SumProduced(FeedIds)

\* the k-th fragment of a stream: the fragments of one stream all differ
Fragment(k) == ToString(k)

\* the backend produces the next fragment of the stream
Produce(s) ==
  /\ feed[s].pc = "open" /\ feed[s].made < MaxFrags /\ Chunks < MaxChunks
  /\ LET ch == Fragment(feed[s].made + 1)
     IN feed' = [feed EXCEPT ![s].buf = Append(@, ch), ![s].produced = Append(@, ch),
                             ![s].made = @ + 1]
  /\ UNCHANGED <<lifeVars, acq, strm, cacheVars, panelData, uiVars>>

\* mutant: the loop takes the newest fragment first
NextChunk_newest(buf) == [chunk |-> buf[Len(buf)], rest |-> SubSeq(buf, 1, Len(buf) - 1)]

\* `for await (const chunk of stream)`: the oldest fragment not yet taken
NextChunk(buf) == [chunk |-> Head(buf), rest |-> Tail(buf)]

\* one turn of the loop: `if (!panelData) break;
\* panelData[textField] = panelData[textField] + chunk`
Take(s) ==
  /\ feed[s].pc = "open" /\ feed[s].buf # <<>>
  /\ LET n == NextChunk(feed[s].buf)
     IN /\ feed' = [feed EXCEPT ![s].buf = n.rest, ![s].got = Append(@, n.chunk)]
        /\ panelData' = [panelData EXCEPT !.text[s[2]] = Append(@, Piece(n.chunk, s[1]))]
  /\ UNCHANGED <<lifeVars, acq, strm, cacheVars, uiVars>>

\* the stream is done: loading off, and "No output." when the text is blank
FeedEnd(s) ==
  /\ feed[s].pc = "open" /\ feed[s].buf = <<>>
  /\ feed' = [feed EXCEPT ![s] = Returned(s)]
  /\ panelData' = [panelData EXCEPT
                     !.loading[s[2]] = FALSE,
                     !.text[s[2]] = IF Trim(StringOf(@)) = <<>>
                                      THEN <<Piece("No output.", 0)>> ELSE @]
  /\ UNCHANGED <<lifeVars, acq, strm, cacheVars, uiVars>>

\* the stream raises: what it had queued is gone and the catch block runs
FeedFail(s) ==
  /\ feed[s].pc = "open"
  /\ feed' = [feed EXCEPT ![s] = Returned(s)]
  /\ panelData' = Caught(s)
  /\ UNCHANGED <<lifeVars, acq, strm, cacheVars, uiVars>>

NextPanel ==
  \/ OpenPanel
  \/ \E s \in FeedIds : FeedOpen(s)
  \/ \E s \in FeedIds : FeedThrow(s)
  \/ \E s \in FeedIds : Produce(s)
  \/ \E s \in FeedIds : Take(s)
  \/ \E s \in FeedIds : FeedEnd(s)
  \/ \E s \in FeedIds : FeedFail(s)

\* the content script holds one client of each kind; the panel does not depend
\* on which of them the lifecycle variables describe
InitPanel == Init /\ kind = "Summarizer" /\ apiPresent

SpecPanel == InitPanel /\ [][NextPanel]_vars

\* a step of some streamPromptIntoField() call: its continuation after
\* `await getStream()`, a turn of its `for await` loop, or its end
FeedStep == \E s \in FeedIds : FeedOpen(s) \/ FeedThrow(s) \/ Take(s) \/ FeedEnd(s) \/ FeedFail(s)

\* the event loop runs a continuation that is ready; that the stream of every
\* call ends or raises is the proviso of the property stated below
PanelFairness == WF_vars(FeedStep)

\* initPanelForText while few panels have been opened
OpenPanelFew == panelData.sel < MaxLivePanels /\ OpenPanel

NextPanelLive ==
  \/ OpenPanelFew
  \/ \E s \in FeedIds : FeedOpen(s)
  \/ \E s \in FeedIds : FeedThrow(s)
  \/ \E s \in FeedIds : Produce(s)
  \/ \E s \in FeedIds : Take(s)
  \/ \E s \in FeedIds : FeedEnd(s)
  \/ \E s \in FeedIds : FeedFail(s)

SpecPanelLive == InitPanel /\ [][NextPanelLive]_vars /\ PanelFairness

\* ------------------------------------------------- quiz game: question runs
\* `return () => abort.abort()`: the cleanup of the effect run that is live
Cleanup(q) == IF q.live = 0 THEN q
              ELSE [q EXCEPT !.run[q.live].aborted = TRUE, !.live = 0]

\* the question effect, run when currentCard?.id or gameState has changed:
\* the cleanup of the run before, then, while playing, a new run up to
\* `await promptClient.resetContext(..)`
Effect(q) ==
  LET c == Cleanup(q)
      r == c.questionIdRef + 1
  IN IF c.gameState # "Playing" THEN c
     ELSE [c EXCEPT !.questionIdRef = r, !.live = r,
                    !.run[r] = [pc |-> "reset", aborted |-> FALSE],
                    !.questionLoading = TRUE, !.selectedAnswer = "null",
                    !.showNextButton = FALSE,
                    !.quizStatement = [by |-> r, text |-> ""]]

\* the game's state after a handler has set `next`: the effect runs when one
\* of its dependencies has changed
Rendered(next) ==
  IF next.gameState # quiz.gameState \/ next.index # quiz.index THEN Effect(next) ELSE next

\* a handler may start a question run only while run ids are left
RunsLeft == quiz.questionIdRef < MaxRuns

\* handleStartSession, after initFromUserGesture(): `setGameState(Loading)`
StartSession ==
  /\ quiz.gameState = "NotStarted"
  /\ quiz' = Rendered([quiz EXCEPT !.gameState = "Loading"])
  /\ UNCHANGED <<coreVars, popup, card>>

\* handleStartSession, after `await db.cards.toArray()`: back to the start
\* screen without cards, else the session is set up and the game plays
CardsLoaded(some) ==
  /\ quiz.gameState = "Loading" /\ (some => RunsLeft)
  /\ quiz' = Rendered(IF some
                        THEN [quiz EXCEPT !.gameState = "Playing", !.index = 0,
                                          !.selectedAnswer = "null", !.showNextButton = FALSE]
                        ELSE [quiz EXCEPT !.gameState = "NotStarted"])
  /\ UNCHANGED <<coreVars, popup, card>>

\* handleRestart: the Quit button while playing, Back to Start when finished
Restart ==
  /\ quiz.gameState \in {"Playing", "Finished"}
  /\ quiz' = Rendered([quiz EXCEPT !.gameState = "NotStarted"])
  /\ UNCHANGED <<coreVars, popup, card>>

\* handleAnswerSelection(userThinksItIsTrue)
AnswerSelection(v) ==
  /\ quiz.gameState = "Playing"
  /\ quiz.selectedAnswer = "null" /\ ~quiz.questionLoading
  /\ quiz' = [quiz EXCEPT !.selectedAnswer = v, !.showNextButton = TRUE]
  /\ UNCHANGED <<coreVars, popup, card>>

\* handleNextQuestion, after the answer is recorded: the next card, or the
\* game is finished
NextQuestion ==
  /\ quiz.gameState = "Playing" /\ quiz.showNextButton
  /\ quiz.index < MaxQuestions - 1 => RunsLeft
  /\ quiz' = Rendered(IF quiz.index < MaxQuestions - 1
                        THEN [quiz EXCEPT !.index = @ + 1, !.selectedAnswer = "null",
                                          !.showNextButton = FALSE]
                        ELSE [quiz EXCEPT !.gameState = "Finished"])
  /\ UNCHANGED <<coreVars, popup, card>>

\* mutant: the result is shown whichever run fetched it
Superseded_never(q, r) == FALSE

\* `abort.signal.aborted || questionIdRef.current !== runId`
Superseded(q, r) == q.run[r].aborted \/ q.questionIdRef # r

\* after getPairForCard(): `if (superseded) return;` then one of the two
\* statements is shown
ShowPair(q, r, showFalse) ==
  IF Superseded(q, r) THEN q
  ELSE [q EXCEPT !.quizStatement = [by |-> r, text |-> IF showFalse THEN "falseText" ELSE "trueText"],
                 !.isStatementTrue = ~showFalse]

\* the catch block: `if (!abort.signal.aborted) { setGameState(NotStarted); alert(..) }`
QuizCatch(q, r) == IF q.run[r].aborted THEN q ELSE [q EXCEPT !.gameState = "NotStarted"]

\* the finally block; the run has ended, pc tells whether it was the latest
QuizFinally(q, r) ==
  LET latest == ~q.run[r].aborted /\ q.questionIdRef = r
  IN [q EXCEPT !.questionLoading = IF latest THEN FALSE ELSE @,
               !.run[r].pc = IF latest THEN "done" ELSE "discarded"]

\* resetContext() settles: on to getPairForCard(), or catch and finally
ResetSettles(r, ok) ==
  /\ quiz.run[r].pc = "reset"
  /\ quiz' = IF ok THEN [quiz EXCEPT !.run[r].pc = "pair"]
             ELSE Rendered(QuizFinally(QuizCatch(quiz, r), r))
  /\ UNCHANGED <<coreVars, popup, card>>

\* getPairForCard() settles: the rest of the try block, or catch, and finally
PairSettles(r, ok, showFalse) ==
  /\ quiz.run[r].pc = "pair"
  /\ quiz' = IF ok THEN QuizFinally(ShowPair(quiz, r, showFalse), r)
             ELSE Rendered(QuizFinally(QuizCatch(quiz, r), r))
  /\ UNCHANGED <<coreVars, popup, card>>

NextQuiz ==
  \/ StartSession
  \/ \E some \in BOOLEAN : CardsLoaded(some)
  \/ Restart
  \/ \E v \in {"true", "false"} : AnswerSelection(v)
  \/ NextQuestion
  \/ \E r \in QuizRuns, ok \in BOOLEAN : ResetSettles(r, ok)
  \/ \E r \in QuizRuns, ok \in BOOLEAN, showFalse \in BOOLEAN : PairSettles(r, ok, showFalse)

\* the game runs on the page's PromptClient
InitQuiz == InitPrompt /\ apiPresent

SpecQuiz == InitQuiz /\ [][NextQuiz]_vars

\* ------------------------------------------------ summarizer popup: run()
\* the two builds of the popup: pages/App.tsx, which acquires the session in
\* the click and then summarizes, and the one that asks hasSummarizer() first
Variants == {"App", "hasSummarizer"}

\* the popup page is opened
PopupOpen(v) ==
  /\ popup.variant = ""
  /\ popup' = [popup EXCEPT !.variant = v]
  /\ UNCHANGED <<coreVars, quiz, card>>

\* run() calls made so far
Clicks == Cardinality({r \in PopupRuns : popup.run[r].pc # "idle"})

\* run(), up to its first await; the Summarize button is disabled while busy
RunClick ==
  /\ popup.variant # "" /\ ~popup.busy /\ Clicks < MaxClicks
  /\ LET r == Clicks + 1
     IN popup' = [popup EXCEPT
                    !.reqToken = @ + 1, !.busy = TRUE, !.err = "null",
                    !.out = [by |-> r, text |-> ""], !.ctrlRef = r,
                    !.run[r] = [pc |-> IF popup.variant = "App" THEN "init" ELSE "has",
                                myToken |-> popup.reqToken + 1, signal |-> 0]]
  /\ UNCHANGED <<coreVars, quiz, card>>

\* abort(): the Cancel button, enabled while busy
CancelClick ==
  /\ popup.busy
  /\ popup' = [popup EXCEPT
                 !.signaled = IF popup.ctrlRef = 0 THEN @ ELSE @ \cup {popup.ctrlRef},
                 !.ctrlRef = 0, !.reqToken = @ + 1, !.busy = FALSE, !.err = "null"]
  /\ UNCHANGED <<coreVars, quiz, card>>

\* `if (myToken !== reqToken.current) return;`
Current(p, r) == p.run[r].myToken = p.reqToken

\* the catch block of run()
PopupCatch(p, r) == IF Current(p, r) THEN [p EXCEPT !.err = "error"] ELSE p

\* the finally block of run(): `if (myToken === reqToken.current) setBusy(false);
\* ctrlRef.current = null;`
PopupFinally(p, r) ==
  [p EXCEPT !.busy = IF Current(p, r) THEN FALSE ELSE @,
            !.ctrlRef = 0,
            !.run[r].pc = "done"]

\* `signal: ctrlRef.current.signal` as the summarize call is built: reading
\* .signal of null raises a TypeError, which the catch block gets
CallSummarize(p, r) ==
  IF p.ctrlRef = 0 THEN PopupFinally(PopupCatch(p, r), r)
  ELSE [p EXCEPT !.run[r].pc = "summarize", !.run[r].signal = p.ctrlRef]

\* App.tsx: `await summarizerClient.initFromUserGesture(..)` settles
InitSettles(r, ok) ==
  /\ popup.run[r].pc = "init"
  /\ popup' = IF ok THEN CallSummarize(popup, r)
              ELSE PopupFinally(PopupCatch(popup, r), r)
  /\ UNCHANGED <<coreVars, quiz, card>>

\* the other build: `await hasSummarizer()` settles; without the API the
\* error is set and run() returns
HasSettles(r, ok) ==
  /\ popup.run[r].pc = "has"
  /\ popup' = IF ok THEN CallSummarize(popup, r)
              ELSE PopupFinally([popup EXCEPT !.err = "unavailable"], r)
  /\ UNCHANGED <<coreVars, quiz, card>>

\* the summarize call settles: with a summary, with none, or with an error
SummarizeSettles(r, res) ==
  /\ popup.run[r].pc = "summarize"
  /\ popup' =
       IF res = "reject" THEN PopupFinally(PopupCatch(popup, r), r)
       ELSE IF ~Current(popup, r) THEN PopupFinally(popup, r)
       ELSE IF res = "none" THEN PopupFinally([popup EXCEPT !.err = "no-result"], r)
       ELSE IF popup.variant = "App"
         THEN [popup EXCEPT !.out = [by |-> r, text |-> "summary"], !.run[r].pc = "store"]
       ELSE PopupFinally([popup EXCEPT !.out = [by |-> r, text |-> "summary"]], r)
  /\ UNCHANGED <<coreVars, quiz, card>>

\* App.tsx: `await chrome.storage?.local?.set(..)` settles, either way
StoreSettles(r) ==
  /\ popup.run[r].pc = "store"
  /\ popup' = PopupFinally(popup, r)
  /\ UNCHANGED <<coreVars, quiz, card>>

NextPopup ==
  \/ \E v \in Variants : PopupOpen(v)
  \/ RunClick
  \/ CancelClick
  \/ \E r \in PopupRuns, ok \in BOOLEAN : InitSettles(r, ok)
  \/ \E r \in PopupRuns, ok \in BOOLEAN : HasSettles(r, ok)
  \/ \E r \in PopupRuns, res \in {"summary", "none", "reject"} : SummarizeSettles(r, res)
  \/ \E r \in PopupRuns : StoreSettles(r)

\* the popup's summarizer is the manager of the lifecycle variables
InitPopup == Init /\ kind = "Summarizer" /\ apiPresent

SpecPopup == InitPopup /\ [][NextPopup]_vars

\* ------------------------------------------------------ flashcards: SM-2
\* the least ease factor, 1.3, in hundredths
EaseFloor == 130

\* ReviewQuality
Qualities == {0, 3, 4, 5}

\* what an import file may hold: `interval: z.number().int()` and
\* `easeFactor: z.number()` (0, 0.1, 1.3 and 2.5 here)
ImportIntervals == {-1, 0, 1, 2}
ImportEase == {0, 10, 130, 250}

\* the add form stores a new card with interval 1 and easeFactor 2.5
AddCard ==
  /\ ~card.stored
  /\ card' = [stored |-> TRUE, interval |-> 1, easeFactor |-> 250, reviews |-> 0]
  /\ UNCHANGED <<coreVars, quiz, popup>>

\* handleImport stores the card of a file that passes cardImportSchema
ImportCard(i, e) ==
  /\ ~card.stored
  /\ card' = [stored |-> TRUE, interval |-> i, easeFactor |-> e, reviews |-> 0]
  /\ UNCHANGED <<coreVars, quiz, popup>>

Max(a, b) == IF a >= b THEN a ELSE b

\* Math.round(n / d) for d > 0: the nearest integer, halves upwards
RoundDiv(n, d) == (2 * n + d) \div (2 * d)

\* the ease factor's change after a successful review, in hundredths:
\* 0.1 - (5 - q) * (0.08 + (5 - q) * 0.02)
EaseDelta(q) == 10 - (5 - q) * (8 + (5 - q) * 2)

\* updateCardSRS(card, quality): the fields it stores
UpdateCardSRS(c, q) ==
  IF q < 3
    THEN [c EXCEPT !.interval = 1, !.easeFactor = Max(EaseFloor, c.easeFactor - 20)]
    ELSE [c EXCEPT !.interval = IF c.interval <= 1 THEN 6
                                ELSE RoundDiv(c.interval * c.easeFactor, 100),
                   !.easeFactor = Max(EaseFloor, c.easeFactor + EaseDelta(q))]

\* the card is reviewed with quality q
Review(q) ==
  /\ card.stored /\ card.reviews < MaxReviews
  /\ card' = [UpdateCardSRS(card, q) EXCEPT !.reviews = @ + 1]
  /\ UNCHANGED <<coreVars, quiz, popup>>

NextCards ==
  \/ AddCard
  \/ \E i \in ImportIntervals, e \in ImportEase : ImportCard(i, e)
  \/ \E q \in Qualities : Review(q)

\* the card store does not depend on the model clients
InitCards == Init /\ kind = "Summarizer" /\ apiPresent

SpecCards == InitCards /\ [][NextCards]_vars

\* ================================================================ properties
\* an acquire() call p is issued in this step
AcquireStep(p) == pc[p] = "idle" /\ pc'[p] # "idle"

\* sessions the backend has handed to the manager, by create() or by clone()
Obtained == {j \in Callers : job[j] \in {"fulfilled", "settledOk"}}
            \cup {c \in CloneIds : job[c] = "settledOk"}

\* C1: acquire() calls issued concurrently on a fresh manager cause exactly one
\* backend create() call and all of them end with the same outcome.
C1_OneCreateOnFresh ==
  hist.allFresh =>
    /\ hist.creates <= 1
    /\ \A p, q \in Callers : pc[p] = "done" /\ pc[q] = "done" => outcome[p] = outcome[q]

\* C2: in every reachable state at most one backend create() call is in flight.
C2_OneCreateInFlight == Cardinality(CreatesInFlight) <= 1

\* C3: every session obtained through the manager that is not its current
\* session has been destroyed, so at most one session is live.
C3_OneLiveSession == \A s \in Obtained : s # session => s \in destroyed

\* C4: an acquire() issued while the manager holds a session makes no backend
\* call (create, params, availability, clone) and returns at once without error.
C4_NoBackendCallOnReady ==
  [][\A p \in Callers : AcquireStep(p) /\ session # Null =>
        /\ hist'.creates = hist.creates
        /\ hist'.paramsCalls = hist.paramsCalls
        /\ hist'.availCalls = hist.availCalls
        /\ hist'.cloneCalls = hist.cloneCalls
        /\ job' = job
        /\ pc'[p] = "done"
        /\ outcome'[p].st = "ok"]_vars

C4_Witness ==
  \E p \in Callers : pc[p] = "done" /\ outcome[p] = [st |-> "ok", by |-> Null] /\ session # Null

\* C5 as claimed: acquire() on a Ready manager leaves the session, the creation
\* marker, the baseline options and the cached availability value unchanged.
C5_ReadyAcquireChangesNothing ==
  [][\A p \in Callers : AcquireStep(p) /\ session # Null =>
        /\ session' = session
        /\ creating' = creating
        /\ opts' = opts
        /\ availabilityStatus' = availabilityStatus]_vars

\* C5 as amended: acquire() on a Ready manager leaves the session, the creation
\* marker and the baseline options unchanged and clears the cached availability.
C5_ReadyAcquireKeepsAllButCache ==
  [][\A p \in Callers : AcquireStep(p) /\ session # Null =>
        /\ session' = session
        /\ creating' = creating
        /\ opts' = opts
        /\ availabilityStatus' = ""]_vars

C5_Witness == hist.readyCleared /\ session # Null /\ availabilityStatus = ""

\* C6: when the create() of an attempt has failed, the manager is Uninitialized:
\* it holds no session and no creation is in flight or marked.
C6_FailureResets ==
  [][\A j \in Callers : job[j] = "rejected" /\ job'[j] = "settledErr" =>
        /\ session' = Null
        /\ creating' = Null
        /\ CreatesInFlight = {}]_vars

\* C7: dispose() never throws, with or without a session and also when destroy()
\* throws, and when it returns the manager holds no session and no creation marker.
C7_DisposeNeverThrows ==
  [][disp'.n # disp.n => ~disp'.threw /\ session' = Null /\ creating' = Null]_vars

C7_Witness == disp.n > 0 /\ disp.hadSession /\ disp.destroyThrew /\ ~disp.threw

\* C8: a create() or clone() that was in flight when dispose() was called never
\* installs its session into the manager.
C8_NoInstallAfterRelease == session # Null => session \notin hist.stale

\* C9 as claimed: once dispose() has been called on a Ready manager, the manager
\* is never Creating or Ready again.
C9_DisposedIsTerminal == hist.released # {} => session = Null /\ creating = Null

\* C9 as amended: only the released session is terminal: a session the manager
\* held when dispose() was called is never the manager's session again, while a
\* later acquire() makes the same manager Creating and Ready with a new session.
C9_ReleasedSessionNeverHeld == session \notin hist.released

C9_Witness ==
  kind = "Writer" /\ hist.released # {} /\ session # Null /\ session \notin hist.stale

ProbeCall(q) == probe[q].pc = "idle" /\ probe'[q].pc # "idle"

\* an availability() call q that suspended returns in this step
ProbeReturn(q) == probe[q].pc \in {"wait", "query"} /\ probe'[q].pc = "done"

\* C11 as claimed: availability(force) returns the cached value without a backend
\* query when a value is cached and force is false, and otherwise queries the
\* backend once and stores the result, so that of two successive non-forced
\* probes exactly the first one queries the backend.
C11_CachedElseQuery ==
  [][\A q \in ProbeIds :
       /\ ProbeCall(q) =>
            IF availabilityStatus # "" /\ ~probe'[q].force
              THEN /\ probe'[q].pc = "done"
                   /\ probe'[q].result = availabilityStatus
                   /\ hist'.availCalls = hist.availCalls
              ELSE /\ probe'[q].pc # "done"
                   /\ hist'.availCalls = hist.availCalls + 1
       /\ ProbeReturn(q) => availabilityStatus' = probe'[q].result]_vars

\* C11 as amended: availability(force) returns the cached value without a backend
\* query when a value is cached and force is false; otherwise it suspends, queries
\* the backend at most once, and not at all when the host has no API object, and
\* stores what it returns; the second of two successive non-forced probes with no
\* acquire() or dispose() in between therefore never queries the backend.
C11_CachedElseQueryIfApi ==
  [][\A q \in ProbeIds :
       /\ ProbeCall(q) =>
            IF availabilityStatus # "" /\ ~probe'[q].force
              THEN /\ probe'[q].pc = "done"
                   /\ probe'[q].result = availabilityStatus
                   /\ hist'.availCalls = hist.availCalls
              ELSE /\ probe'[q].pc \in {"wait", "query"}
                   /\ hist'.availCalls = hist.availCalls + (IF probe'[q].pc = "query" THEN 1 ELSE 0)
                   /\ ~apiPresent => probe'[q].pc = "wait"
       /\ ProbeReturn(q) => availabilityStatus' = probe'[q].result]_vars

\* two non-forced probes and nothing else: the first queried, the second did not
C11_Witness ==
  /\ \A q \in {1, 2} : probe[q].pc = "done" /\ ~probe[q].force
  /\ probe[1].answer = "downloadable" /\ probe[2].answer = ""
  /\ probe[2].result = "downloadable"
  /\ hist.availCalls = 1
  /\ disp.n = 0 /\ \A p \in Callers : pc[p] = "idle"

\* C12: a completed probe has returned a state and has not thrown; when the
\* backend query threw it returned 'unavailable', when the backend answered a
\* value outside the known set it returned 'unknown', and it returned 'available'
\* only if the backend answered 'available' to it or to the probe whose value
\* was cached.
C12_ProbeAbsorbsFailure ==
  /\ \A q \in ProbeIds : probe[q].pc = "done" =>
        /\ probe[q].result \in KnownStates \cup {"no-api"}
        /\ probe[q].answer = "throw" => probe[q].result = "unavailable"
        /\ probe[q].answer \notin KnownStatesOf(kind) \cup {"", "throw"} => probe[q].result = "unknown"
        /\ probe[q].result = "available" => \E r \in ProbeIds : probe[r].answer = "available"
  /\ availabilityStatus = "available" => \E r \in ProbeIds : probe[r].answer = "available"

C12_Witness ==
  \E q, r \in ProbeIds :
    /\ probe[q].pc = "done" /\ probe[q].answer = "throw" /\ probe[q].result = "unavailable"
    /\ probe[r].pc = "done" /\ probe[r].answer = "bogus" /\ probe[r].result = "unknown"

\* C13: on a host that exposes no API object for the kind, a probe makes no
\* backend call (no availability(), no create(), no params(), no clone()) and
\* returns 'no-api'.
C13_NoApiNoBackendCall ==
  [][\A q \in ProbeIds : ~apiPresent /\ (ProbeCall(q) \/ ProbeReturn(q)) =>
        /\ hist'.availCalls = hist.availCalls /\ hist'.creates = hist.creates
        /\ hist'.paramsCalls = hist.paramsCalls /\ hist'.cloneCalls = hist.cloneCalls
        /\ job' = job
        /\ probe'[q].answer = ""
        /\ probe'[q].pc = "done" => probe'[q].result = "no-api"]_vars

C13_Witness ==
  /\ ~apiPresent
  /\ \E q \in ProbeIds : probe[q].pc = "done" /\ probe[q].result = "no-api"
  /\ availabilityStatus = "no-api"
  /\ hist.availCalls = 0

\* C14: an acquire() issued after a probe has returned 'no-api', with no forced
\* re-probe in between, attempts no backend create().
C14_NoCreateAfterNoBackend == \A p \in hist.late : job[p] = "none"

\* an acquire() call p that found the manager Uninitialized: it did not return
\* at the session check and did not join a creation in flight
UninitCall(p) ==
  /\ pc[p] # "idle"
  /\ awaiting[p] \in {Null, p}
  /\ outcome[p] # [st |-> "ok", by |-> Null]

\* C15 as claimed: on a host without the API object an acquire() on an
\* Uninitialized manager fails without calling create() and the manager stays
\* Uninitialized; on every other host it has called create() when it returns,
\* whatever a probe has reported.
C15_ThrowIffNoApi ==
  \A p \in Callers : UninitCall(p) =>
    IF ~apiPresent
      THEN /\ pc[p] = "done" /\ outcome[p].st = "no-api"
           /\ job[p] = "none"
           /\ session = Null /\ creating = Null
      ELSE pc[p] = "done" => job[p] # "none"

\* C15 as amended: as claimed, except that a PromptClient acquire() whose
\* LanguageModel.params() query fails returns with that error before create().
C15_ThrowIffNoApiOrParamsFail ==
  \A p \in Callers : UninitCall(p) =>
    IF ~apiPresent
      THEN /\ pc[p] = "done" /\ outcome[p].st = "no-api"
           /\ job[p] = "none"
           /\ session = Null /\ creating = Null
      ELSE /\ pc[p] = "done" => job[p] # "none" \/ outcome[p].st = "params-error"
           /\ outcome[p].st = "params-error" => kind = "LanguageModel" /\ job[p] = "none"
           /\ outcome[p].st # "no-api"

\* a probe returned 'unavailable', then the only acquire() was issued (it cleared
\* the cached value) and called create()
C15_Witness ==
  /\ apiPresent
  /\ \E q \in ProbeIds : probe[q].pc = "done" /\ probe[q].result = "unavailable"
  /\ availabilityStatus = "" /\ disp.n = 0
  /\ UninitCall(1) /\ job[1] # "none" /\ pc[2] = "idle"

\* C16: when the create() of an acquire() succeeds, the baseline options become
\* the effective options that creation was given (baseline merged with the
\* params, sampling values as negotiated); when an acquire() fails, at the API
\* test, at params() or at create(), the baseline options are unchanged.
C16_BaselineIsEffective ==
  [][/\ \A j \in Callers :
          /\ job[j] = "inflight" /\ job'[j] = "fulfilled" => opts' = merged[j]
          /\ job[j] = "inflight" /\ job'[j] = "rejected" => opts' = opts
     /\ \A p \in Callers :
          pc[p] # "done" /\ pc'[p] = "done" /\ outcome'[p].st # "ok" => opts' = opts]_vars

\* the last element of a non-empty sequence
Last(seq) == seq[Len(seq)]

\* C17: the progress values delivered to the callback of one acquisition attempt
\* are non-decreasing, and when the attempt has succeeded after progress was
\* reported the last delivered value is 1 (100 percent).
C17_ProgressMonotone ==
  \A p \in Callers :
    /\ \A i, k \in 1..Len(acq[p].seen) : i < k => acq[p].seen[i] <= acq[p].seen[k]
    /\ job[p] \in {"fulfilled", "settledOk"} /\ acq[p].seen # <<>> => Last(acq[p].seen) = 100

\* C18: once the signal given to an acquire() call has been aborted, no further
\* progress value is delivered to that call's callback.
C18_NoProgressAfterAbort ==
  [][\A p \in Callers : acq[p].token = "signaled" => acq'[p].seen = acq[p].seen]_vars

\* C19: once the signal given to a streaming call has been aborted, no further
\* fragment of that call's stream, for which the backend has been invoked, is
\* delivered to the consumer.
C19_NoFragmentAfterCancel ==
  [][strm.token = "signaled" /\ strm.backend => strm'.delivered = strm.delivered]_vars

\* a subject text that is empty or consists of blanks
Blank(t) == Trim(t) = <<>>

\* C20: a call of summarizeStreaming, writeStreaming, promptStreaming or
\* generateELI5Stream on a held session whose subject text is empty or blank
\* makes no backend call and its stream completes without a fragment.
C20_BlankShortCircuits ==
  /\ strm.method \in StreamMethods \ {"generateStatementStream"}
  /\ strm.pc \in {"open", "ended", "failed"}
  /\ Blank(strm.text)
  => /\ ~strm.backend
     /\ strm.delivered = 0
     /\ strm.pc \in {"open", "ended"}

\* C21: dispose() called while a stream of the held session is being consumed
\* does not throw, and after it has returned no further fragment of that stream
\* is delivered to the consumer.
C21_DisposeEndsStream ==
  /\ [](disp.n > 0 => ~disp.threw)
  /\ [][strm.backend /\ strm.sess \in hist.released => strm'.delivered = strm.delivered]_vars

\* call b for the card of call a was issued after a, and every call for that
\* card was issued when no other call for it was in progress
InSequence(a, b) ==
  /\ a < b /\ pcall[a].id # 0 /\ pcall[b].id = pcall[a].id
  /\ \A c \in PairCalls : pcall[c].id = pcall[a].id => pcall[c].seq

\* C22: when getPairForCard is called for a card id after an earlier call for
\* that id has completed successfully, the calls for the id being made one
\* after the other, the later call runs no generation and returns the pair the
\* earlier call returned.
C22_SecondCallHits ==
  \A a, b \in PairCalls :
    InSequence(a, b) /\ pcall[a].pc = "ok"
    => pcall[b].pc = "hit" /\ pcall[b].ret = pcall[a].ret

C22_Witness ==
  \E a, b \in PairCalls :
    InSequence(a, b) /\ pcall[a].pc = "ok" /\ pcall[b].pc = "hit" /\ pcall[b].ret.by = a

\* C23: two calls of getPairForCard for the same card id never both have their
\* generations running, and two calls for the same id that overlapped return
\* the same pair.
C23_ConcurrentCoalesced ==
  \A a, b \in PairCalls :
    a < b /\ pcall[a].id # 0 /\ pcall[b].id = pcall[a].id
    => /\ ~(pcall[a].pc = "gen" /\ pcall[b].pc = "gen"
            /\ pcall[a].sess # Null /\ pcall[b].sess # Null)
       /\ (pcall[a].pc = "ok" /\ pcall[b].pc = "ok" => pcall[a].ret = pcall[b].ret)

\* C24: once a pair is stored for a card id, no step replaces or removes it.
C24_StoredPairStays ==
  [][\A i \in CardIds : pairCache[i].has => pairCache'[i] = pairCache[i]]_vars

\* C25: the stream of generateStatementStream never raises to its consumer; when
\* it has ended it has yielded exactly one fragment, and that fragment is the
\* diagnostic text only if the generation failed: for want of a session, or on
\* a backend stream that did not run to its end.
C25_StatementStreamNeverRaises ==
  strm.method = "generateStatementStream"
  => /\ strm.pc \in {"lazy", "inner", "ended"}
     /\ strm.delivered = (IF strm.pc = "ended" THEN 1 ELSE 0)
     /\ strm.pc = "ended" /\ ~strm.diag => strm.backend
     /\ strm.pc = "ended" /\ ~strm.backend => strm.diag

C25_Witness ==
  /\ strm.method = "generateStatementStream" /\ strm.pc = "ended"
  /\ strm.backend /\ strm.diag /\ strm.delivered = 1

\* a generation of call c fails in this step, or the call itself returns the
\* failure to its caller
GenerationFails(c) ==
  /\ pcall[c].pc = "gen"
  /\ \/ pcall[c].t = "run" /\ pcall'[c].t = "fail"
     \/ pcall[c].f = "run" /\ pcall'[c].f = "fail"
     \/ pcall'[c].pc = "threw"

\* C26: a generation request that fails leaves the session, the creation in
\* flight, the baseline options and the pair cache as they were, and a request
\* issued while a session is held is sent to that session.
C26_FailureKeepsSession ==
  [][/\ \A c \in PairCalls :
          GenerationFails(c) => /\ session' = session /\ creating' = creating
                                /\ opts' = opts /\ pairCache' = pairCache
     /\ \A c \in PairCalls :
          pcall[c].pc = "idle" /\ pcall'[c].pc = "gen" /\ session # Null
          => pcall'[c].sess = session]_vars

C26_Witness ==
  \E a, b \in PairCalls :
    /\ a < b /\ pcall[a].pc = "threw" /\ pcall[a].sess # Null
    /\ pcall[b].pc = "gen" /\ pcall[b].sess = pcall[a].sess /\ session = pcall[a].sess

C30_NoLeakIntoNewPanel ==
  \A f \in Fields : \A i \in 1..Len(panelData.text[f]) :
    panelData.text[f][i].sel \in {0, panelData.sel}

GenerationStep == strm.pc = "idle" /\ strm'.pc # "idle"
                  /\ strm'.method # "generateStatementStream"

\* C31: a generate or streaming call (summarize, write, prompt, their streaming
\* variants, append) or cloneSession issued while the manager holds no session
\* fails with the 'not initialized' error and makes no backend call, and
\* resetContext in that state changes nothing.
C31_NoSessionNoGeneration ==
  [][/\ GenerationStep /\ session = Null
        => strm'.pc = "threw" /\ ~strm'.backend /\ strm'.sess = Null
     /\ \A c \in CloneIds :
          clone[c].pc = "idle" /\ clone'[c].pc # "idle" /\ session = Null
            => /\ clone'[c].pc = "failed"
               /\ job' = job /\ hist'.cloneCalls = hist.cloneCalls
               /\ session' = Null /\ opts' = opts]_vars

\* a generation call has thrown on a manager that was acquired and released
C31_Witness ==
  /\ strm.pc = "threw" /\ strm.method # "generateStatementStream"
  /\ disp.n > 0 /\ \E j \in Callers : job[j] = "settledOk"

\* acquire() call p found a creation in flight and awaited it
Joiner(p) == awaiting[p] # Null /\ awaiting[p] # p

\* C35: a caller that joins a creation in flight gets that creation's outcome
\* and its own onDownloadProgress callback is never invoked: the progress
\* events of an attempt go only to the callback of the call that started it.
C35_JoinerCallbackSilent ==
  /\ [](\A p \in Callers :
          Joiner(p) => /\ acq[p].seen = <<>>
                       /\ pc[p] = "done"
                            => /\ outcome[p].by = awaiting[p]
                               /\ outcome[p].st = "ok" <=> job[awaiting[p]] = "settledOk")
  /\ [][\A j \in Callers : acq'[j].seen # acq[j].seen
                              => job[j] = "inflight" /\ awaiting[j] = j]_vars

\* a joiner that passed a callback has returned, and the starter's callback
\* has been given progress
C35_Witness ==
  \E p \in Callers : /\ Joiner(p) /\ acq[p].cb /\ pc[p] = "done"
                      /\ acq[awaiting[p]].seen # <<>>

\* `supportsTopK`: the device reports a positive maxTopK
SupportsTopK == modelParams.maxTopK # Undef /\ modelParams.maxTopK > 0

\* PromptClient calls create() for acquire() call p in this step
CreateStep(p) == job[p] = "none" /\ job'[p] = "inflight"

\* C36: PromptClient passes the sampling parameters to create() both or
\* neither: neither when the device reports no positive maxTopK, both
\* otherwise; no create() call carries exactly one of them.
C36_BothOrNeither ==
  [][\A p \in Callers :
       CreateStep(p)
         => /\ cparams'[p].temperature = Undef <=> cparams'[p].topK = Undef
            /\ cparams'[p].topK = Undef <=> ~SupportsTopK]_vars

\* a request that names topK alone has led to a create() call with both
C36_Witness ==
  \E p \in Callers :
    /\ job[p] = "inflight" /\ SupportsTopK /\ opts = defaultOpts
    /\ cparams[p].topK = One /\ cparams[p].temperature = modelParams.defaultTemperature

\* sampling values within the device's limits: an integer topK
InRange(o) ==
  /\ Finite(o.topK) /\ o.topK % One = 0
  /\ One <= o.topK /\ o.topK <= modelParams.maxTopK
  /\ Finite(o.temperature)
  /\ 0 <= o.temperature /\ o.temperature <= modelParams.maxTemperature

\* C37: when the device supports topK, the values PromptClient negotiates are
\* in range whatever was requested: topK is an integer from 1 to maxTopK and
\* temperature lies between 0 and maxTemperature; when the create() succeeds
\* the baseline options hold these values.
C37_NegotiatedInRange ==
  [][\A p \in Callers :
       /\ CreateStep(p) /\ SupportsTopK => InRange(cparams'[p]) /\ InRange(merged'[p])
       /\ job[p] = "inflight" /\ job'[p] = "fulfilled" /\ SupportsTopK
            => InRange(opts') /\ opts'.topK = cparams[p].topK
               /\ opts'.temperature = cparams[p].temperature]_vars

\* a request that was fractional and out of range has been negotiated and is
\* the baseline of the session
C37_Witness ==
  /\ SupportsTopK /\ session # Null
  /\ opts.topK = 6 /\ opts.temperature = 4 /\ opts.length = "short"

\* question run r goes on after one of its awaits in this step
QuizRunStep(r) == quiz.run[r].pc \in {"reset", "pair"} /\ quiz'.run[r].pc # quiz.run[r].pc

\* C32: a question run that has been superseded (its effect cleaned up and its
\* signal aborted, or a newer run id issued) never writes the displayed
\* statement, its truth value or the question-loading flag; only the latest
\* run can set them.
C32_SupersededRunWritesNothing ==
  [][\A r \in QuizRuns :
       QuizRunStep(r) /\ (quiz.run[r].aborted \/ quiz.questionIdRef # r)
         => /\ quiz'.quizStatement = quiz.quizStatement
            /\ quiz'.isStatementTrue = quiz.isStatementTrue
            /\ quiz'.questionLoading = quiz.questionLoading]_vars

\* a run has ended after a newer one was started, and the newer run has shown
\* its statement
C32_Witness ==
  \E r \in QuizRuns :
    /\ quiz.run[r].pc = "discarded" /\ quiz.questionIdRef > r
    /\ quiz.quizStatement.by = quiz.questionIdRef /\ quiz.quizStatement.text # ""

\* run r of the popup goes on after one of its awaits in this step
PopupRunStep(r) == popup.run[r].pc \notin {"idle", "done"}
                   /\ popup'.run[r].pc # popup.run[r].pc

\* C33: after Cancel the canceled run never shows its summary or error and
\* never clears the busy flag of a later run: only the run whose request token
\* equals the current token writes out, err or busy.
C33_CanceledRunWritesNothing ==
  [][\A r \in PopupRuns :
       PopupRunStep(r) /\ popup.run[r].myToken # popup.reqToken
         => /\ popup'.out = popup.out
            /\ popup'.err = popup.err
            /\ popup'.busy = popup.busy]_vars

\* the run the popup is busy with has its summarize call in flight
Summarizing(r) == /\ popup.busy /\ popup.run[r].pc = "summarize"
                  /\ popup.run[r].myToken = popup.reqToken

\* C34: whenever a run is active, Cancel signals the controller whose signal
\* was passed to that run's backend call, and a run that was canceled earlier
\* and finishes late never detaches the controller of the newer run.
C34_CancelReachesActiveRun ==
  [][/\ \A r \in PopupRuns :
          Summarizing(r) /\ ~popup'.busy /\ popup'.reqToken # popup.reqToken
            => popup.run[r].signal \in popup'.signaled
     /\ \A r \in PopupRuns :
          PopupRunStep(r) /\ popup.run[r].myToken # popup.reqToken
            => popup'.ctrlRef = popup.ctrlRef]_vars

\* C38: every streamPromptIntoField run eventually clears its loading flag,
\* provided its stream ends or raises: on normal end the text is not blank
\* (the placeholder "No output." if nothing was produced), on error the error
\* field is set, and loading and error are never both set.
C38_RunClearsLoading ==
  /\ \A s \in FeedIds : feed[s].pc \in {"await", "open"} ~> feed[s].pc = "returned"
  /\ [][\A s \in FeedIds :
          /\ feed[s].pc # "returned" /\ feed'[s].pc = "returned"
               => ~panelData'.loading[s[2]]
          /\ FeedEnd(s) => Trim(StringOf(panelData'.text[s[2]])) # <<>>
          /\ FeedFail(s) \/ FeedThrow(s) => panelData'.error[s[2]]]_vars
  /\ [](\A f \in Fields : ~(panelData.loading[f] /\ panelData.error[f]))

\* a run whose stream produced nothing has ended with the placeholder, and a
\* run of the same panel has ended with the error set
C38_Witness ==
  /\ panelData.sel > 0
  /\ \A f \in Fields : feed[<<panelData.sel, f>>].pc = "returned"
  /\ StringOf(panelData.text["summaryText"]) = <<"No output.">>
  /\ panelData.error["explainText"] /\ ~panelData.loading["explainText"]

\* C39: after any sequence of updateCardSRS reviews of a stored card its
\* easeFactor is at least 1.3 and its interval at least 1; a review with
\* quality below 3 sets the interval to 1, and a successful review of a card
\* whose interval is at most 1 sets it to 6.
C39_SrsBounds ==
  /\ [](card.reviews > 0 => card.easeFactor >= EaseFloor /\ card.interval >= 1)
  /\ [][\A q \in Qualities :
          Review(q) => /\ q < 3 => card'.interval = 1
                       /\ q >= 3 /\ card.interval <= 1 => card'.interval = 6]_vars

====
